---- MODULE Spec2Model ----
(***************************************************************************)
(* CarEnvironment (src/env.py): the episode / reward state machine, the    *)
(* course generator (modify_env, the ground, the extension) and clone().   *)
(*                                                                         *)
(* Units.  Every length, position and speed of the source is held in       *)
(* tenths (x = 20 is 200, y = 2.2 is 22, width 0.5 is 5) and every reward  *)
(* in tenths of a reward unit (+300 is 3000, -50 is -500), so that the     *)
(* source's float arithmetic is exact integer arithmetic here.             *)
(*                                                                         *)
(* Python objects.  The containers the source mutates in place (the        *)
(* obstacle list, the passed-obstacle set, the position deque) live in     *)
(* `heap`; an environment holds a reference (1..2, 0 is "no object") to    *)
(* each, so that two environments sharing one container is expressible.    *)
(*                                                                         *)
(* Box2D.  world.Step is an external collaborator: its result, the         *)
(* chassis' new position and velocity, is a nondeterministic choice.       *)
(* Every body the source creates in its world it also appends to           *)
(* self.bodies, and self.world and self.bodies are replaced together, so   *)
(* the one list `bodies` stands for both.  Of the poses only the chassis'  *)
(* is kept (car); the joints and the pygame display are not modelled.      *)
(*                                                                         *)
(* random.  The module-level generator of Python's `random` is one         *)
(* process-wide stream: `rng` is its state, every draw advances it.        *)
(***************************************************************************)
EXTENDS Integers, Sequences, FiniteSets, TLC

VARIABLES
    envs,   \* slot -> CarEnvironment instance (origin "none": no instance)
    heap,   \* the mutable containers: obs, hist, passed, each ref -> value
    rng,    \* state of the process-wide `random` generator
    last,   \* the call that produced this state: [op, env, src, arg, pre]
    ret,    \* what that call returned: [state, reward, terms, done, raised]
    ticks   \* step calls made so far, over all instances, up to MaxTicks

vars == <<envs, heap, rng, last, ret, ticks>>

(***************************************************************************)
(* Bounds of the model and constants of the program.                       *)
(***************************************************************************)
MaxTicks == 3          \* Spec: step calls made in one run, over all instances
MaxSeed == 2           \* seeds of the generator tried: 1..MaxSeed
MaxObstacles == 6      \* SpecPlace: modify_env is called on shorter lists only
max_steps == 1000      \* self.max_steps
maxlen == 30           \* deque(maxlen=30)
ground_length == 16000 \* SCREEN_W / PPM * 40
segment_length == 10   \* segment_length = 1

Slots == {1, 2}
Refs == {1, 2}

Min(a, b) == IF a < b THEN a ELSE b
Max(a, b) == IF a > b THEN a ELSE b

(***************************************************************************)
(* random: a multiplicative congruential stream (period 30).  uniform      *)
(* yields lo, the midpoint or hi; choice indexes the list; seed sets the   *)
(* state.                                                                  *)
(***************************************************************************)
seed(s) == (16 * s + 7) % 31
Draw(r) == (3 * r) % 31
uniform(lo, hi, r) == lo + ((hi - lo) * (r % 3)) \div 2
choice(seq, r) == seq[(r % Len(seq)) + 1]

(***************************************************************************)
(* Obstacles.                                                              *)
(***************************************************************************)
Params(x, y, w, h, t) ==
    [base_position |-> <<x, y>>, size |-> <<w, h>>, obstacle_type |-> t]

builtin_config ==
    << Params(200, 10, 10, 7, "ramp"),
       Params(250, 10, 10, 10, "hole"),
       Params(300, 10, 20, 10, "bump") >>

base_x(obs) == obs.params.base_position[1]
size_x(obs) == obs.params.size[1]
right_edge(obs) == base_x(obs) + size_x(obs)

\* _is_overlapping_with_existing_obstacles: only the x-extent is compared
is_overlapping_with_existing_obstacles(obstacles, x, width) ==
    \E i \in 1..Len(obstacles) :
        /\ x < base_x(obstacles[i]) + size_x(obstacles[i])
        /\ base_x(obstacles[i]) < x + width

\* the static body CreateStaticBody makes for a ramp or a bump
StaticBody(params) == [kind |-> params.obstacle_type, params |-> params]

\* a slip: an unrecognised kind is placed as a bump
modify_env_default(obstacles, params) ==
    LET x == params.base_position[1]
        y == params.base_position[2]
        t == params.obstacle_type
    IN  IF t = "ramp"
        THEN [obstacles |-> Append(obstacles,
                  [body |-> TRUE, type |-> t, params |-> params]),
              bodies |-> <<StaticBody(params)>>,
              raised |-> FALSE]
        ELSE IF t = "hole"
        THEN LET width == Min(params.size[1], 30)
                 height == 10
             IN  IF is_overlapping_with_existing_obstacles(obstacles, x, width)
                 THEN [obstacles |-> obstacles, bodies |-> <<>>, raised |-> FALSE]
                 ELSE [obstacles |-> Append(obstacles,
                           [body |-> FALSE, type |-> t,
                            params |-> Params(x, y, width, height, t)]),
                       bodies |-> <<>>,
                       raised |-> FALSE]
        ELSE [obstacles |-> Append(obstacles,
                  [body |-> TRUE, type |-> "bump", params |-> params]),
              bodies |-> <<StaticBody(params)>>,
              raised |-> FALSE]

\* modify_env: the obstacle list after the call, the bodies the call adds to
\* the world and to the body list, and whether it raised
modify_env(obstacles, params) ==
    LET x == params.base_position[1]
        y == params.base_position[2]
        t == params.obstacle_type
    IN  IF t = "ramp" \/ t = "bump"
        THEN [obstacles |-> Append(obstacles,
                  [body |-> TRUE, type |-> t, params |-> params]),
              bodies |-> <<StaticBody(params)>>,
              raised |-> FALSE]
        ELSE IF t = "hole"
        THEN LET width == Min(params.size[1], 30)
                 height == 10
             IN  IF is_overlapping_with_existing_obstacles(obstacles, x, width)
                 THEN [obstacles |-> obstacles, bodies |-> <<>>, raised |-> FALSE]
                 ELSE [obstacles |-> Append(obstacles,
                           [body |-> FALSE, type |-> t,
                            params |-> Params(x, y, width, height, t)]),
                       bodies |-> <<>>,
                       raised |-> FALSE]
        ELSE [obstacles |-> obstacles, bodies |-> <<>>, raised |-> TRUE]

\* reset, lines 113-115: the configuration replayed through modify_env, from
\* entry i on; acc is the obstacle list and the bodies added so far
RECURSIVE ReplayConfig(_, _, _)
ReplayConfig(config, i, acc) ==
    IF i > Len(config) THEN acc
    ELSE LET m == modify_env(acc.obstacles, config[i])
         IN  ReplayConfig(config, i + 1,
                          [obstacles |-> m.obstacles,
                           bodies |-> acc.bodies \o m.bodies])

\* _create_ground_with_holes, lines 124-128
hole_intervals(obstacles) ==
    { <<base_x(obstacles[k]), base_x(obstacles[k]) + size_x(obstacles[k])>> :
        k \in { j \in 1..Len(obstacles) : obstacles[j].type = "hole" } }

\* _create_ground_with_holes, lines 130-139: one static body per segment
\* i in range(ground_length / segment_length) whose midpoint x lies in no
\* hole interval.  The bodies of one call are held as one entry of the body
\* list, which keeps the intervals the call worked with; ground_segment
\* tells whether the call made segment i.
create_ground_with_holes(obstacles) ==
    << [kind |-> "ground", hole_intervals |-> hole_intervals(obstacles)] >>

ground_segment(ground, i) ==
    LET x == i * segment_length + segment_length \div 2
        is_hole == \E iv \in ground.hole_intervals : iv[1] <= x /\ x <= iv[2]
    IN  /\ 0 <= i /\ i < ground_length \div segment_length
        /\ ~is_hole

\* a slip: the trigger distance taken ten times too short
should_add_obstacle_short(obstacles, car) ==
    IF obstacles = <<>> THEN FALSE
    ELSE car.position[1] > right_edge(obstacles[Len(obstacles)]) - 20

\* _should_add_obstacle
should_add_obstacle(obstacles, car) ==
    IF obstacles = <<>> THEN FALSE
    ELSE car.position[1] > right_edge(obstacles[Len(obstacles)]) - 200

\* a slip: the last obstacle's base position taken for its right edge
last_pos_x_base(obstacles) == base_x(obstacles[Len(obstacles)])

\* _add_new_obstacle, lines 363-366: the right edge of the last obstacle
last_pos_x(obstacles) == right_edge(obstacles[Len(obstacles)])

\* _add_new_obstacle: the obstacle list, the bodies added and the
\* generator's state after it
add_new_obstacle(obstacles, r0) ==
    LET r1 == Draw(r0)
        new_obstacle_x == last_pos_x(obstacles) + uniform(50, 100, r1)
        new_obstacle_y == 10
        r2 == Draw(r1)
        obstacle_type == choice(<<"ramp", "hole", "bump">>, r2)
        r3 == Draw(r2)
        r4 == Draw(r3)
        placed(size, r) ==
            LET m == modify_env(obstacles,
                         Params(new_obstacle_x, new_obstacle_y,
                                size[1], size[2], obstacle_type))
            IN  [obstacles |-> m.obstacles, bodies |-> m.bodies, rng |-> r]
    IN  IF obstacle_type = "ramp"
        THEN placed(<<uniform(20, 100, r3), uniform(20, 50, r4)>>, r4)
        ELSE IF obstacle_type = "hole"
        THEN LET w == uniform(5, 15, r3)
             IN  IF is_overlapping_with_existing_obstacles(obstacles, new_obstacle_x, w)
                 THEN [obstacles |-> obstacles, bodies |-> <<>>, rng |-> r3]
                 ELSE placed(<<w, 5>>, r3)
        ELSE placed(<<uniform(10, 40, r3), uniform(5, 15, r4)>>, r4)

(***************************************************************************)
(* The vehicle.  Car.__init__ creates the chassis at `position`, at rest.   *)
(* The joints and their motor speeds belong to the Box2D world: an action  *)
(* only sets them, and what the world makes of them is world.Step's        *)
(* nondeterministic result.                                                *)
(***************************************************************************)
Car(position) == [position |-> position, linearVelocity |-> <<0, 0>>]

\* Car._create_car and the three add_body calls that follow every Car(...):
\* the chassis and the two wheels of the n-th Car made in a world
car_bodies(n) ==
    << [kind |-> "chassis", car |-> n],
       [kind |-> "wheel_front", car |-> n],
       [kind |-> "wheel_rear", car |-> n] >>

NoCar == [position |-> <<0, 0>>, linearVelocity |-> <<0, 0>>]

\* _update_camera (PPM = 20, SCREEN_W / 2 = 400, SCREEN_H / 2 = 300 pixels)
update_camera(car) ==
    << Max(0, 2 * car.position[1] - 400), Max(0, 2 * car.position[2] - 300) >>

\* deque.append on a deque(maxlen=30): the oldest entry is evicted when full
deque_append(d, v) ==
    IF Len(d) = maxlen THEN Append(Tail(d), v) ELSE Append(d, v)

\* deque(items, maxlen=30): the last 30 of the items
deque(items) ==
    IF Len(items) > maxlen
    THEN SubSeq(items, Len(items) - maxlen + 1, Len(items))
    ELSE items

\* _get_state: position and velocity (the ray-cast ranges are Box2D's)
get_state(car) ==
    << car.position[1], car.position[2],
       car.linearVelocity[1], car.linearVelocity[2] >>

(***************************************************************************)
(* Termination and reward.                                                 *)
(***************************************************************************)
\* a slip: the fall is tested before the holes
check_done_fell_first(obstacles, car) ==
    LET car_x == car.position[1]
        car_y == car.position[2]
        in_hole == \E i \in 1..Len(obstacles) :
                      /\ obstacles[i].type = "hole"
                      /\ base_x(obstacles[i]) <= car_x
                      /\ car_x <= base_x(obstacles[i]) + size_x(obstacles[i])
                      /\ car_y < 10
    IN  IF car_y < 0 THEN [done |-> TRUE, done_reason |-> "fell"]
        ELSE [done |-> in_hole, done_reason |-> IF in_hole THEN "hole" ELSE "fell"]

\* _check_done: the value returned and the done_reason it leaves behind
check_done(obstacles, car) ==
    LET car_x == car.position[1]
        car_y == car.position[2]
        in_hole == \E i \in 1..Len(obstacles) :
                      /\ obstacles[i].type = "hole"
                      /\ base_x(obstacles[i]) <= car_x
                      /\ car_x <= base_x(obstacles[i]) + size_x(obstacles[i])
                      /\ car_y < 10
    IN  IF in_hole THEN [done |-> TRUE, done_reason |-> "hole"]
        ELSE [done |-> car_y < 0, done_reason |-> "fell"]

bonus_of(type) ==
    IF type = "ramp" THEN 3000
    ELSE IF type = "hole" THEN 2000
    ELSE IF type = "bump" THEN 1800
    ELSE 0

\* a slip: the bonus is given whether or not the obstacle was passed before
RECURSIVE obstacle_bonus_again(_, _, _, _, _)
obstacle_bonus_again(obstacles, idx, car_x, passed, reward) ==
    IF idx >= Len(obstacles)
    THEN [reward |-> reward, passed_obstacles |-> passed]
    ELSE LET obs == obstacles[idx + 1]
         IN  IF right_edge(obs) < car_x
             THEN obstacle_bonus_again(obstacles, idx + 1, car_x,
                                       passed \cup {idx}, reward + bonus_of(obs.type))
             ELSE obstacle_bonus_again(obstacles, idx + 1, car_x, passed, reward)

\* _calculate_reward, lines 316-327: the loop over the obstacles, from
\* index idx (0-based, as enumerate gives it) on
RECURSIVE obstacle_bonus(_, _, _, _, _)
obstacle_bonus(obstacles, idx, car_x, passed, reward) ==
    IF idx >= Len(obstacles)
    THEN [reward |-> reward, passed_obstacles |-> passed]
    ELSE LET obs == obstacles[idx + 1]
         IN  IF right_edge(obs) < car_x /\ idx \notin passed
             THEN obstacle_bonus(obstacles, idx + 1, car_x,
                                 passed \cup {idx}, reward + bonus_of(obs.type))
             ELSE obstacle_bonus(obstacles, idx + 1, car_x, passed, reward)

SeqMax(s, k) == CHOOSE m \in {s[i][k] : i \in 1..Len(s)} :
                    \A i \in 1..Len(s) : s[i][k] <= m
SeqMin(s, k) == CHOOSE m \in {s[i][k] : i \in 1..Len(s)} :
                    \A i \in 1..Len(s) : s[i][k] >= m

\* _calculate_reward, lines 343-348: the penalty for a fall or the end of
\* the episode
terminal_penalty(done, done_reason) ==
    IF done THEN (IF done_reason = "hole" THEN -500 ELSE -1000) ELSE 0

\* _calculate_reward: the terms of the reward and the passed set after it
calculate_reward(obstacles, prev_positions, passed, car, done, done_reason) ==
    LET n == Len(prev_positions)
        delta_x == IF n >= 2
                   THEN prev_positions[n][1] - prev_positions[n - 1][1]
                   ELSE 0
        bonus == obstacle_bonus(obstacles, 0, car.position[1], passed, 0)
        still == /\ n = maxlen
                 /\ SeqMax(prev_positions, 1) - SeqMin(prev_positions, 1) < 5
                 /\ SeqMax(prev_positions, 2) - SeqMin(prev_positions, 2) < 5
        velocity == car.linearVelocity[1]
    IN  [terms |->
            [progress   |-> 10 * delta_x,
             backward   |-> IF delta_x < 0 THEN -1000 ELSE 0,
             living     |-> 10,
             bonus      |-> bonus.reward,
             stagnation |-> IF still THEN -200 ELSE 0,
             stability  |-> IF n >= 2
                            THEN (velocity \div 2) - ((velocity * velocity) \div 100)
                            ELSE 0,
             terminal   |-> terminal_penalty(done, done_reason)],
         passed_obstacles |-> bonus.passed_obstacles]

Total(t) == t.progress + t.backward + t.living + t.bonus + t.stagnation
            + t.stability + t.terminal

NoTerms == [progress |-> 0, backward |-> 0, living |-> 0, bonus |-> 0,
            stagnation |-> 0, stability |-> 0, terminal |-> 0]

(***************************************************************************)
(* Instances and their containers.  W is [envs, heap].                     *)
(***************************************************************************)
NoEnv ==
    [origin |-> "none", obstacles |-> 0, obstacles_config |-> <<>>,
     step_count |-> 0, done |-> FALSE, done_reason |-> "none",
     passed_obstacles |-> 0, prev_positions |-> 0,
     car |-> NoCar, camera |-> <<0, 0>>,
     bodies |-> <<>>, car_id |-> 0]

EmptyHeap ==
    [obs |-> [r \in Refs |-> <<>>], hist |-> [r \in Refs |-> <<>>],
     passed |-> [r \in Refs |-> {}]]

\* a new object: the first reference no instance but e holds in field f
\* (whatever e holds there is given up by the assignment that follows)
FreshRef(es, e, f) ==
    CHOOSE r \in Refs :
        /\ \A o \in Slots \ {e} : es[o][f] # r
        /\ \A q \in Refs : q < r => \E o \in Slots \ {e} : es[o][f] = q

\* objects no instance refers to are collected
Collect(es, h) ==
    [obs    |-> [r \in Refs |-> IF \E o \in Slots : es[o].obstacles = r
                                THEN h.obs[r] ELSE <<>>],
     hist   |-> [r \in Refs |-> IF \E o \in Slots : es[o].prev_positions = r
                                THEN h.hist[r] ELSE <<>>],
     passed |-> [r \in Refs |-> IF \E o \in Slots : es[o].passed_obstacles = r
                                THEN h.passed[r] ELSE {}]]

Obstacles(e) == heap.obs[envs[e].obstacles]
PrevPositions(e) == heap.hist[envs[e].prev_positions]
PassedObstacles(e) == heap.passed[envs[e].passed_obstacles]
Alive(e) == envs[e].origin # "none"

\* a slip: step_count is not cleared
reset_env_keeps_count(W, e) ==
    LET self == W.envs[e]
        ro == FreshRef(W.envs, e, "obstacles")
        rp == FreshRef(W.envs, e, "passed_obstacles")
        rh == FreshRef(W.envs, e, "prev_positions")
        placed == ReplayConfig(self.obstacles_config, 1,
                               [obstacles |-> <<>>, bodies |-> car_bodies(1)])
    IN  [envs |-> [W.envs EXCEPT ![e] =
                     [self EXCEPT !.passed_obstacles = rp,
                                  !.prev_positions = rh,
                                  !.done = FALSE,
                                  !.car = Car(<<100, 22>>),
                                  !.car_id = 1,
                                  !.camera = <<0, 0>>,
                                  !.obstacles = ro,
                                  !.bodies = placed.bodies \o
                                      create_ground_with_holes(placed.obstacles)]],
         heap |-> [obs    |-> [W.heap.obs EXCEPT ![ro] = placed.obstacles],
                   hist   |-> [W.heap.hist EXCEPT ![rh] = <<>>],
                   passed |-> [W.heap.passed EXCEPT ![rp] = {}]]]

\* reset: a new world and body list (the first Car of the world and its
\* bodies, the bodies of the replayed configuration, the ground), new
\* containers, the counters cleared
reset_env(W, e) ==
    LET self == W.envs[e]
        ro == FreshRef(W.envs, e, "obstacles")
        rp == FreshRef(W.envs, e, "passed_obstacles")
        rh == FreshRef(W.envs, e, "prev_positions")
        placed == ReplayConfig(self.obstacles_config, 1,
                               [obstacles |-> <<>>, bodies |-> car_bodies(1)])
    IN  [envs |-> [W.envs EXCEPT ![e] =
                     [self EXCEPT !.passed_obstacles = rp,
                                  !.prev_positions = rh,
                                  !.done = FALSE,
                                  !.step_count = 0,
                                  !.car = Car(<<100, 22>>),
                                  !.car_id = 1,
                                  !.camera = <<0, 0>>,
                                  !.obstacles = ro,
                                  !.bodies = placed.bodies \o
                                      create_ground_with_holes(placed.obstacles)]],
         heap |-> [obs    |-> [W.heap.obs EXCEPT ![ro] = placed.obstacles],
                   hist   |-> [W.heap.hist EXCEPT ![rh] = <<>>],
                   passed |-> [W.heap.passed EXCEPT ![rp] = {}]]]

\* __init__: the attributes set in lines 45-57 and 95, then reset()
init_env(W, e) ==
    reset_env([envs |-> [W.envs EXCEPT ![e] =
                           [NoEnv EXCEPT !.origin = "constructed",
                                         !.obstacles_config = builtin_config]],
               heap |-> W.heap], e)

\* a slip: the done flag is not carried over
clone_counters_no_done(new_env, self) ==
    [new_env EXCEPT !.step_count = self.step_count,
                    !.camera = self.camera]

\* clone, lines 260-262
clone_counters(new_env, self) ==
    [new_env EXCEPT !.step_count = self.step_count,
                    !.done = self.done,
                    !.camera = self.camera]

\* a slip: the source's deque and set are assigned, not copied
clone_containers_shared(W, s, t) ==
    [envs |-> [W.envs EXCEPT ![t].prev_positions = W.envs[s].prev_positions,
                             ![t].passed_obstacles = W.envs[s].passed_obstacles],
     heap |-> W.heap]

\* clone, lines 263-264: a new deque and a new set with the source's entries
clone_containers(W, s, t) ==
    LET rh == FreshRef(W.envs, t, "prev_positions")
        rp == FreshRef(W.envs, t, "passed_obstacles")
    IN  [envs |-> [W.envs EXCEPT ![t].prev_positions = rh,
                                 ![t].passed_obstacles = rp],
         heap |-> [W.heap EXCEPT
                     !.hist[rh] = deque(W.heap.hist[W.envs[s].prev_positions]),
                     !.passed[rp] = W.heap.passed[W.envs[s].passed_obstacles]]]

\* clone: the instance s cloned into slot t
clone_env(W, s, t) ==
    LET self == W.envs[s]
        W1 == init_env([envs |-> [W.envs EXCEPT ![t] = NoEnv], heap |-> W.heap], t)
        W2 == [envs |-> [W1.envs EXCEPT ![t].obstacles_config = self.obstacles_config],
               heap |-> W1.heap]
        W3 == reset_env(W2, t)
        W4 == [envs |-> [W3.envs EXCEPT
                           ![t].car = Car(self.car.position),
                           ![t].car_id = W3.envs[t].car_id + 1,
                           ![t].bodies = W3.envs[t].bodies \o
                                         car_bodies(W3.envs[t].car_id + 1)],
               heap |-> W3.heap]
        W5 == [envs |-> [W4.envs EXCEPT ![t] = clone_counters(W4.envs[t], self)],
               heap |-> W4.heap]
        W6 == clone_containers(W5, s, t)
    IN  [envs |-> [W6.envs EXCEPT ![t].origin = "cloned"], heap |-> W6.heap]

(***************************************************************************)
(* world.Step: the chassis states Box2D may leave behind.                  *)
(***************************************************************************)
Body(x, y, vx) == [position |-> <<x, y>>, linearVelocity |-> <<vx, 0>>]

Physics ==
    { Body(100, 22, 0),      \* at the spawn point
      Body(255, 5, 0),       \* inside the built-in hole, below y = 1
      Body(255, -5, 0),      \* inside the built-in hole, below y = 0
      Body(330, 22, 20),     \* past the three built-in obstacles
      Body(330, -5, 0),      \* below y = 0, over no hole
      Body(372, 5, 0),       \* below y = 1, where a generated hole may lie
      Body(600, 22, 20) }    \* past the first generated obstacle

(***************************************************************************)
(* The calls.                                                              *)
(***************************************************************************)
\* a slip: the cap is reached one tick early
episode_over_early(step_count) == step_count >= max_steps

\* step, line 165
episode_over(step_count) == step_count > max_steps

\* a slip: termination and reward are worked out after the extension
judged_after_extension(obstacles, extended) == extended

\* step, lines 158-163: _check_done and _calculate_reward run before
\* _add_new_obstacle, on the sequence the step started with
judged(obstacles, extended) == obstacles

\* what reset records of the instance it found: whether it was terminated
\* after some steps, with generated obstacles and passed ids
Spent(e) ==
    /\ envs[e].done
    /\ envs[e].step_count > 0
    /\ Len(heap.obs[envs[e].obstacles]) > Len(envs[e].obstacles_config)
    /\ heap.passed[envs[e].passed_obstacles] # {}

Step(e, body) ==
    LET self == envs[e]
        obstacles == heap.obs[self.obstacles]
        car == [position |-> body.position,
                linearVelocity |-> body.linearVelocity]
        step_count == self.step_count + 1
        camera == update_camera(car)
        prev_positions == deque_append(heap.hist[self.prev_positions], car.position)
        ext == IF should_add_obstacle(obstacles, car)
               THEN add_new_obstacle(obstacles, rng)
               ELSE [obstacles |-> obstacles, bodies |-> <<>>, rng |-> rng]
        seen == judged(obstacles, ext.obstacles)
        chk == check_done(seen, car)
        rew == calculate_reward(seen, prev_positions,
                                heap.passed[self.passed_obstacles], car,
                                chk.done, chk.done_reason)
        state == get_state(car)
        done == IF episode_over(step_count) THEN TRUE ELSE chk.done
    IN  /\ envs' = [envs EXCEPT ![e] =
                      [self EXCEPT !.car = car,
                                   !.step_count = step_count,
                                   !.camera = camera,
                                   !.done = done,
                                   !.done_reason = chk.done_reason,
                                   !.bodies = self.bodies \o ext.bodies]]
        /\ heap' = [heap EXCEPT
                      !.hist[self.prev_positions] = prev_positions,
                      !.passed[self.passed_obstacles] = rew.passed_obstacles,
                      !.obs[self.obstacles] = ext.obstacles]
        /\ rng' = ext.rng
        /\ last' = [op |-> "step", env |-> e, src |-> e, arg |-> <<>>, pre |-> FALSE]
        /\ ticks' = Min(ticks + 1, MaxTicks)
        /\ ret' = [state |-> state, reward |-> Total(rew.terms),
                   terms |-> rew.terms, done |-> done, raised |-> FALSE]

Returned(W, e, op, s, pre) ==
    /\ envs' = W.envs
    /\ heap' = Collect(W.envs, W.heap)
    /\ UNCHANGED <<rng, ticks>>
    /\ last' = [op |-> op, env |-> e, src |-> s, arg |-> <<>>, pre |-> pre]
    /\ ret' = [state |-> get_state(W.envs[e].car), reward |-> 0,
               terms |-> NoTerms, done |-> W.envs[e].done, raised |-> FALSE]

Reset(e) == Returned(reset_env([envs |-> envs, heap |-> heap], e), e, "reset", e,
                     Spent(e))

Construct(t) == Returned(init_env([envs |-> [envs EXCEPT ![t] = NoEnv],
                                   heap |-> heap], t), t, "init", t, FALSE)

Clone(s, t) == Returned(clone_env([envs |-> envs, heap |-> heap], s, t), t, "clone", s,
                        FALSE)

\* modify_env called from outside: a ValueError leaves the instance as it is
ModifyEnv(e, params) ==
    LET self == envs[e]
        m == modify_env(heap.obs[self.obstacles], params)
    IN  /\ envs' = [envs EXCEPT ![e].bodies = self.bodies \o m.bodies]
        /\ heap' = [heap EXCEPT !.obs[self.obstacles] = m.obstacles]
        /\ UNCHANGED <<rng, ticks>>
        /\ last' = [op |-> "modify_env", env |-> e, src |-> e,
                    arg |-> params, pre |-> FALSE]
        /\ ret' = [state |-> get_state(self.car), reward |-> 0,
                   terms |-> NoTerms, done |-> self.done, raised |-> m.raised]

Init ==
    /\ rng \in {seed(s) : s \in 1..MaxSeed}
    /\ ticks = 0
    /\ LET W == init_env([envs |-> [e \in Slots |-> NoEnv], heap |-> EmptyHeap], 1)
       IN  /\ envs = W.envs
           /\ heap = W.heap
           /\ last = [op |-> "init", env |-> 1, src |-> 1, arg |-> <<>>, pre |-> FALSE]
           /\ ret = [state |-> get_state(W.envs[1].car), reward |-> 0,
                     terms |-> NoTerms, done |-> FALSE, raised |-> FALSE]

Next ==
    \/ \E e \in Slots, b \in Physics :
          /\ Alive(e)
          /\ ticks < MaxTicks
          /\ Step(e, b)
    \/ \E e \in Slots : Alive(e) /\ Reset(e)
    \/ \E t \in Slots : ~Alive(t) /\ Construct(t)
    \/ \E s \in Slots, t \in Slots : Alive(s) /\ ~Alive(t) /\ Clone(s, t)

Spec == Init /\ [][Next]_vars

(***************************************************************************)
(* A whole episode of one instance, up to the step cap: the caller steps   *)
(* while the episode is not over and may reset at any time; the vehicle    *)
(* idles at the spawn point, creeps forward (never back) or drops below    *)
(* y = 0, and stays more than 20 short of the last obstacle.               *)
(***************************************************************************)
LongPhysics == { Body(100, 22, 0), Body(110, 22, 10), Body(110, -5, 0) }

StepLong(b) ==
    /\ ~envs[1].done
    /\ b.position[1] >= envs[1].car.position[1]
    /\ Step(1, b)

NextLong ==
    \/ \E b \in LongPhysics : StepLong(b)
    \/ Reset(1)

InitLong == Init /\ rng = seed(1)

SpecLong == InitLong /\ [][NextLong]_vars

(***************************************************************************)
(* The course edited from outside: modify_env is called on a freshly reset *)
(* instance (ramp 20..21, hole 25..26, bump 30..32) with candidates of     *)
(* every kind, free of, overlapping and touching what is there.            *)
(***************************************************************************)
Candidates ==
    { Params(400, 10, 20, 20, "ramp"),     \* free
      Params(205, 10, 20, 10, "ramp"),     \* over the built-in ramp
      Params(255, 10, 10, 10, "bump"),     \* over the built-in hole
      Params(500, 10, 40, 5, "hole"),      \* free, wider than 3.0
      Params(265, 10, 40, 5, "hole"),      \* free once clamped to 26.5..29.5
      Params(305, 10, 10, 5, "hole"),      \* over the built-in bump
      Params(320, 10, 10, 5, "hole"),      \* from the built-in bump's right edge on
      Params(400, 10, 10, 10, "wall") }    \* no kind modify_env knows

NextPlace ==
    \/ \E p \in Candidates :
          /\ Len(Obstacles(1)) < MaxObstacles
          /\ ModifyEnv(1, p)
    \/ Reset(1)

SpecPlace == Init /\ [][NextPlace]_vars

(***************************************************************************)
(* Properties.                                                             *)
(***************************************************************************)
Stepped(e) == last.op = "step" /\ last.env = e

\* the closed x-intervals [base_x, base_x + width] of two obstacles meet
Intersect(a, b) == base_x(a) <= right_edge(b) /\ base_x(b) <= right_edge(a)

NoOverlap(obstacles) ==
    \A i \in 1..Len(obstacles) : \A j \in 1..Len(obstacles) :
        i < j => ~Intersect(obstacles[i], obstacles[j])

\* kind, base position and size of each obstacle, in order
Layout(obstacles) ==
    [i \in 1..Len(obstacles) |->
        [type |-> obstacles[i].type,
         base_position |-> obstacles[i].params.base_position,
         size |-> obstacles[i].params.size]]

\* C1: from the built-in configuration, after reset and any number of steps
\* (extensions included), no two obstacles of an instance have intersecting
\* x-intervals [base_x, base_x + width].
C1_NonOverlap == \A e \in Slots : Alive(e) => NoOverlap(Obstacles(e))

\* an instance has stepped through two extensions, the first a ramp
C1_Witness ==
    \E e \in Slots :
        /\ Stepped(e)
        /\ Len(Obstacles(e)) >= 5
        /\ Obstacles(e)[4].type = "ramp"

\* C2: right after clone() the clone's obstacle sequence equals the source's
\* (same length, and same kind, base position and size at each index).
C2_CloneObstaclesEqual ==
    last.op = "clone" =>
        Layout(Obstacles(last.env)) = Layout(Obstacles(last.src))

\* C3: right after clone() the clone's step_count, done flag, camera offset,
\* position history, passed-obstacle set and vehicle position equal the
\* source's; the clone of a terminated instance is terminated.
C3_CloneEpisodeState ==
    last.op = "clone" =>
        LET new_env == envs[last.env]
            self == envs[last.src]
        IN  /\ new_env.step_count = self.step_count
            /\ new_env.done = self.done
            /\ new_env.camera = self.camera
            /\ PrevPositions(last.env) = PrevPositions(last.src)
            /\ Len(PrevPositions(last.env)) <= maxlen
            /\ PassedObstacles(last.env) = PassedObstacles(last.src)
            /\ new_env.car.position = self.car.position

\* a terminated instance that has stepped and passed obstacles was cloned
C3_Witness ==
    /\ last.op = "clone"
    /\ envs[last.src].done
    /\ envs[last.env].done
    /\ envs[last.src].step_count >= 2
    /\ PassedObstacles(last.src) # {}
    /\ envs[last.src].camera # <<0, 0>>

\* what C4 speaks of: the part of an instance another's step must not touch
View(e) ==
    [obstacles |-> Obstacles(e),
     obstacles_config |-> envs[e].obstacles_config,
     step_count |-> envs[e].step_count,
     done |-> envs[e].done,
     prev_positions |-> PrevPositions(e),
     passed_obstacles |-> PassedObstacles(e),
     position |-> envs[e].car.position]

\* C4: once an instance has been cloned, a step on either of the two leaves
\* the other's obstacle sequence, obstacle template, step_count, done flag,
\* position history, passed-obstacle set and vehicle position unchanged.
C4_CloneIndependence ==
    [][\A e \in Slots : \A o \in Slots \ {e} :
          (/\ Alive(e) /\ Alive(o)
           /\ (envs[e].origin = "cloned" \/ envs[o].origin = "cloned")
           /\ last'.op = "step" /\ last'.env = e)
          => View(o)' = View(o)]_vars

\* source and clone have both stepped since the clone was made, and differ
C4_Witness ==
    \E e \in Slots : \E o \in Slots \ {e} :
        /\ Stepped(e)
        /\ envs[o].origin = "cloned"
        /\ envs[e].step_count > 0 /\ envs[o].step_count > envs[e].step_count
        /\ PassedObstacles(e) # PassedObstacles(o)
        /\ Obstacles(e) # Obstacles(o)
        /\ PassedObstacles(e) # {} /\ PassedObstacles(o) # {}

\* C5: once a step has returned done = TRUE, the next step on that instance
\* (no reset in between) returns done = TRUE as well.
C5_TerminatedAbsorbing ==
    [][\A e \in Slots :
          (Stepped(e) /\ ret.done /\ last'.op = "step" /\ last'.env = e)
          => ret'.done]_vars

\* the vehicle's x lies within the x-interval of a hole of `obstacles` and
\* its y is below 1
InHole(obstacles, position) ==
    \E i \in 1..Len(obstacles) :
        /\ obstacles[i].type = "hole"
        /\ obstacles[i].params.base_position[1] <= position[1]
        /\ position[1] <= obstacles[i].params.base_position[1]
                          + obstacles[i].params.size[1]
        /\ position[2] < 10

\* C6: after a step with step_count <= max_steps, done is TRUE with reason
\* hole if the vehicle is within a hole's x-interval with y < 1 (also when
\* y < 0); otherwise TRUE with reason fell if y < 0; otherwise FALSE.  The
\* holes are those of the obstacle sequence the step started with.
C6_TerminationDecision ==
    [][\A e \in Slots :
          (last'.op = "step" /\ last'.env = e /\ envs'[e].step_count <= max_steps)
          => LET pos == envs'[e].car.position
             IN  IF InHole(Obstacles(e), pos)
                 THEN ret'.done /\ envs'[e].done /\ envs'[e].done_reason = "hole"
                 ELSE IF pos[2] < 0
                 THEN ret'.done /\ envs'[e].done /\ envs'[e].done_reason = "fell"
                 ELSE ~ret'.done /\ ~envs'[e].done]_vars

\* a step ended inside a hole below y = 0: terminated, reason hole
C6_Witness ==
    \E e \in Slots :
        /\ Stepped(e)
        /\ InHole(Obstacles(e), envs[e].car.position)
        /\ envs[e].car.position[2] < 0
        /\ envs[e].done /\ envs[e].done_reason = "hole"

RECURSIVE SumBonus(_, _)
SumBonus(ids, obstacles) ==
    IF ids = {} THEN 0
    ELSE LET i == CHOOSE i \in ids : TRUE
         IN  bonus_of(obstacles[i + 1].type) + SumBonus(ids \ {i}, obstacles)

\* the vehicle was right of obstacle idx's right edge at some tick of the
\* position history
CrossedBefore(e, idx) ==
    \E k \in 1..Len(PrevPositions(e)) :
        PrevPositions(e)[k][1] > right_edge(Obstacles(e)[idx + 1])

\* C8: in an episode of an instance driven by reset and step (its history
\* not yet full, so every tick of the episode is in it), a step's reward
\* holds the bonus (3000 ramp, 2000 hole, 1800 bump) of exactly the
\* obstacles it marks passed; an obstacle of the sequence is marked in the
\* tick whose x is right of its right edge while it is unmarked, and never
\* unmarked; a marked obstacle was crossed in the episode, and a built-in
\* obstacle is marked as soon as it has been crossed.  Hence each bonus is
\* paid once: in the first tick with x beyond the edge.
C8_OneTimeBonus ==
    [][\A e \in Slots :
          (/\ envs[e].origin = "constructed"
           /\ last'.op = "step" /\ last'.env = e
           /\ envs'[e].step_count < maxlen)
          => LET obstacles == Obstacles(e)
                 ids == 0..(Len(obstacles) - 1)
                 x == envs'[e].car.position[1]
                 paid == PassedObstacles(e)' \ PassedObstacles(e)
             IN  /\ PassedObstacles(e) \subseteq PassedObstacles(e)'
                 /\ paid \subseteq ids
                 /\ \A i \in ids :
                       i \in paid <=>
                          (right_edge(obstacles[i + 1]) < x
                           /\ i \notin PassedObstacles(e))
                 /\ ret'.terms.bonus = SumBonus(paid, obstacles)
                 /\ \A i \in PassedObstacles(e) :
                       i \in ids /\ CrossedBefore(e, i)
                 /\ \A i \in 0..(Len(envs[e].obstacles_config) - 1) :
                       i \in ids /\ CrossedBefore(e, i)
                          => i \in PassedObstacles(e)]_vars

\* the vehicle went past the built-in obstacles, came back, and went past
\* them again: the third tick pays no bonus
C8_Witness ==
    \E e \in Slots :
        /\ envs[e].origin = "constructed"
        /\ Stepped(e)
        /\ Len(PrevPositions(e)) = 3
        /\ PrevPositions(e)[1][1] > 320
        /\ PrevPositions(e)[2][1] < 200
        /\ PrevPositions(e)[3][1] > 320
        /\ {0, 1, 2} \subseteq PassedObstacles(e)
        /\ ret.terms.bonus = 0

\* C10: two independently constructed instances that have gone through the
\* same ticks (same count, same vehicle positions) have the same obstacle
\* sequence; the generator was seeded once, before the first was built.
C10_Determinism ==
    (/\ envs[1].origin = "constructed"
     /\ envs[2].origin = "constructed"
     /\ envs[1].step_count = envs[2].step_count
     /\ PrevPositions(1) = PrevPositions(2)
     /\ envs[1].car = envs[2].car)
    => Layout(Obstacles(1)) = Layout(Obstacles(2))

\* C7: a step's reward holds the terminal penalty exactly when the step
\* takes the episode from running to terminated (it returns done = TRUE and
\* done was FALSE before), -500 for reason hole and -1000 otherwise, the
\* step that ends the episode at the step cap included; a step that returns
\* done = FALSE holds none.
C7_TerminalPenalty ==
    [][\A e \in Slots :
          (last'.op = "step" /\ last'.env = e)
          => ret'.terms.terminal =
                IF ret'.done /\ ~envs[e].done
                THEN (IF envs'[e].done_reason = "hole" THEN -500 ELSE -1000)
                ELSE 0]_vars

\* C9: with the caller stepping until done, a tick up to max_steps on which
\* the vehicle is neither in a hole below y = 1 nor below y = 0 returns
\* done = FALSE, tick max_steps + 1 returns done = TRUE, and there is no
\* tick after it.
C9_EpisodeCap ==
    [][(last'.op = "step" /\ last'.env = 1)
       => LET n == envs'[1].step_count
              pos == envs'[1].car.position
              geometric == InHole(Obstacles(1), pos) \/ pos[2] < 0
          IN  /\ (n <= max_steps /\ ~geometric) => ~ret'.done
              /\ n = max_steps + 1 => ret'.done
              /\ n <= max_steps + 1]_vars

\* tick max_steps + 1 has ended the episode with the vehicle on the ground
C9_Witness ==
    /\ Stepped(1)
    /\ envs[1].step_count = max_steps + 1
    /\ ret.done /\ envs[1].done
    /\ envs[1].car.position[2] >= 10
    /\ ~InHole(Obstacles(1), envs[1].car.position)

Placed(e) == last.op = "modify_env" /\ last.env = e

Kinds == {"ramp", "hole", "bump"}

\* C14: modify_env with a kind other than ramp, hole or bump raises, and the
\* obstacle sequence and the body list are what they were before the call.
C14_UnsupportedKind ==
    [][\A e \in Slots :
          (/\ last'.op = "modify_env" /\ last'.env = e
           /\ last'.arg.obstacle_type \notin Kinds)
          => /\ ret'.raised
             /\ Obstacles(e)' = Obstacles(e)
             /\ envs'[e].bodies = envs[e].bodies]_vars

\* an unknown kind was refused on a course that had been added to
C14_Witness ==
    /\ Placed(1)
    /\ last.arg.obstacle_type = "wall"
    /\ ret.raised
    /\ Len(Obstacles(1)) > Len(envs[1].obstacles_config)

\* C15: modify_env, called with a candidate of any kind on an obstacle
\* sequence without intersecting x-intervals, leaves a sequence without
\* intersecting x-intervals.
C15_InsertionEnforced ==
    [][\A e \in Slots :
          (last'.op = "modify_env" /\ last'.env = e /\ NoOverlap(Obstacles(e)))
          => NoOverlap(Obstacles(e)')]_vars

\* C16: modify_env with a hole candidate, its width clamped to 3.0, raises
\* nothing; if the candidate's x-interval [x, x + width] intersects that of
\* an obstacle of the sequence, the sequence and the body list are
\* unchanged; if not, one hole record with the clamped width, height 1 and
\* no body is appended, and the body list is unchanged.
C16_OverlappingHoleNoOp ==
    [][\A e \in Slots :
          (/\ last'.op = "modify_env" /\ last'.env = e
           /\ last'.arg.obstacle_type = "hole")
          => LET x == last'.arg.base_position[1]
                 y == last'.arg.base_position[2]
                 width == Min(last'.arg.size[1], 30)
                 hole == [body |-> FALSE, type |-> "hole",
                          params |-> Params(x, y, width, 10, "hole")]
                 hits == \E i \in 1..Len(Obstacles(e)) :
                            Intersect(Obstacles(e)[i], hole)
             IN  /\ ~ret'.raised
                 /\ envs'[e].bodies = envs[e].bodies
                 /\ Obstacles(e)' = IF hits THEN Obstacles(e)
                                    ELSE Append(Obstacles(e), hole)]_vars

\* C11: a step on one of two live instances leaves what the other reads as
\* it was: its obstacle sequence, template, counters, history, passed set
\* and vehicle position, and the obstacle (kind, size, position) it would
\* generate at its next extension.
C11_NoSharedState ==
    [][\A e \in Slots : \A o \in Slots \ {e} :
          (Alive(e) /\ Alive(o) /\ last'.op = "step" /\ last'.env = e)
          => /\ View(o)' = View(o)
             /\ Layout(add_new_obstacle(Obstacles(o), rng').obstacles)
                  = Layout(add_new_obstacle(Obstacles(o), rng).obstacles)]_vars

\* the body list holds ground segment i (x from i to i + 1, midpoint i + 0.5)
HasGround(bodies, i) ==
    \E k \in 1..Len(bodies) :
        bodies[k].kind = "ground" /\ ground_segment(bodies[k], i)

\* C12: in every state of every instance, no ground segment has its
\* midpoint inside the x-interval of a hole of the obstacle sequence,
\* built-in or generated.
C12_GroundCoincidesWithHoles ==
    \A e \in Slots : Alive(e) =>
        \A k \in 1..Len(Obstacles(e)) :
            Obstacles(e)[k].type = "hole" =>
                LET lo == base_x(Obstacles(e)[k])
                    hi == right_edge(Obstacles(e)[k])
                IN  \A i \in ((lo \div segment_length) - 1)
                               .. ((hi \div segment_length) + 1) :
                        LET mid == i * segment_length + segment_length \div 2
                        IN  (lo <= mid /\ mid <= hi) => ~HasGround(envs[e].bodies, i)

\* C13: right after reset, whatever the instance was before, step_count is
\* 0, done is FALSE, the passed set and the position history are empty, the
\* vehicle is at rest at (10, 2.2), the camera is at the origin, and the
\* obstacle sequence is the three obstacles of the initial configuration
\* (ramp 20..21, hole 25..26, bump 30..32) and nothing else; reset returns
\* the observation of that vehicle.
C13_ResetLeaksNothing ==
    last.op = "reset" =>
        LET self == envs[last.env]
        IN  /\ self.step_count = 0
            /\ ~self.done
            /\ PassedObstacles(last.env) = {}
            /\ PrevPositions(last.env) = <<>>
            /\ self.car = [position |-> <<100, 22>>, linearVelocity |-> <<0, 0>>]
            /\ self.camera = <<0, 0>>
            /\ Layout(Obstacles(last.env)) =
                  << [type |-> "ramp", base_position |-> <<200, 10>>, size |-> <<10, 7>>],
                     [type |-> "hole", base_position |-> <<250, 10>>, size |-> <<10, 10>>],
                     [type |-> "bump", base_position |-> <<300, 10>>, size |-> <<20, 10>>] >>
            /\ ret.state = <<100, 22, 0, 0>>
            /\ ~ret.done

\* a terminated instance that had stepped, generated obstacles and passed
\* some was reset
C13_Witness ==
    /\ last.op = "reset"
    /\ last.pre

\* C17: a step attempts an extension (draws from the generator) exactly when
\* the obstacle sequence it started with is not empty and the vehicle's x
\* after the physics step is greater than the last obstacle's right edge
\* minus 20; an attempt leaves the sequence as it was or appends one
\* obstacle at y = 1 with base_x between that edge + 5 and that edge + 10,
\* the obstacles before it untouched; without an attempt the sequence is
\* unchanged.
C17_ExtensionTrigger ==
    [][\A e \in Slots :
          (last'.op = "step" /\ last'.env = e)
          => LET before == Obstacles(e)
                 after == Obstacles(e)'
                 n == Len(before)
                 x == envs'[e].car.position[1]
                 attempted == rng' # rng
             IN  /\ attempted <=>
                       (n > 0 /\ x > right_edge(before[n]) - 200)
                 /\ ~attempted => after = before
                 /\ attempted =>
                       \/ after = before
                       \/ /\ Len(after) = n + 1
                          /\ SubSeq(after, 1, n) = before
                          /\ after[n + 1].params.base_position[2] = 10
                          /\ base_x(after[n + 1]) >= right_edge(before[n]) + 50
                          /\ base_x(after[n + 1]) <= right_edge(before[n]) + 100]_vars

\* a step that ended short of the last obstacle, but within 20 of its right
\* edge, has appended an obstacle
C17_Witness ==
    \E e \in Slots :
        /\ Stepped(e)
        /\ envs[e].origin = "constructed"
        /\ envs[e].step_count = 1
        /\ envs[e].car.position[1] < 320
        /\ Len(Obstacles(e)) = 4

C19_PassedIdsExist ==
    \A e \in Slots : Alive(e) =>
        PassedObstacles(e) \subseteq 0..(Len(Obstacles(e)) - 1)

\* the entries of the body list of the given kind
BodiesOfKind(bodies, kind) == { k \in 1..Len(bodies) : bodies[k].kind = kind }

\* C20: in every state of every instance, clones included, the body list
\* (the bodies of the instance's world) holds one chassis and two wheels,
\* those of the Car the instance's car refers to.
C20_OneVehicle ==
    \A e \in Slots : Alive(e) =>
        \A kind \in {"chassis", "wheel_front", "wheel_rear"} :
            /\ Cardinality(BodiesOfKind(envs[e].bodies, kind)) = 1
            /\ \A k \in BodiesOfKind(envs[e].bodies, kind) :
                  envs[e].bodies[k].car = envs[e].car_id

====
